---- MODULE Spec2Model ----
(***************************************************************************)
(* Document verification pipeline of FairClaim                             *)
(* (src/backend/app/services/services.py).                                 *)
(*                                                                         *)
(* A request is one call of verify_document_with_ocr.  Its position in the *)
(* code is pc[t]; the process-wide DocumentVerificationAgent is the pair   *)
(* (heap, agentSteps): Python lists are objects, so the attribute          *)
(* verification_steps is a reference into a heap of lists, and a verdict's *)
(* "audit_trail" is such a reference too.                                  *)
(*                                                                         *)
(* Strings of the program are sequences of one-character strings.          *)
(* Confidence values are kept in hundredths of a percent (95.0 -> 9500).   *)
(***************************************************************************)
EXTENDS Integers, Sequences, FiniteSets, TLC

\* ------------------------------------------------------------------------
\* Strings
\* ------------------------------------------------------------------------

\* The characters of a string literal, as a sequence.
Str(s) == [i \in 1..Len(s) |-> SubSeq(s, i, i)]

UpperChars == <<"A", "B", "C", "D", "E", "F", "G", "H", "I", "J", "K", "L", "M",
                "N", "O", "P", "Q", "R", "S", "T", "U", "V", "W", "X", "Y", "Z">>

LowerChars == <<"a", "b", "c", "d", "e", "f", "g", "h", "i", "j", "k", "l", "m",
                "n", "o", "p", "q", "r", "s", "t", "u", "v", "w", "x", "y", "z">>

DigitChars == {"0", "1", "2", "3", "4", "5", "6", "7", "8", "9"}

SpaceChars == {" ", "\t", "\n"}

\* str.lower()
Lower(s) ==
    [i \in 1..Len(s) |->
        IF \E k \in 1..26 : UpperChars[k] = s[i]
        THEN LowerChars[CHOOSE k \in 1..26 : UpperChars[k] = s[i]]
        ELSE s[i]]

\* str.strip()
Strip(s) ==
    LET keep == {i \in 1..Len(s) : s[i] \notin SpaceChars}
        lo == CHOOSE i \in keep : \A j \in keep : i <= j
        hi == CHOOSE i \in keep : \A j \in keep : i >= j
    IN  IF keep = {} THEN <<>> ELSE SubSeq(s, lo, hi)

\* sub in s
Contains(sub, s) ==
    \E i \in 1..(Len(s) - Len(sub) + 1) : SubSeq(s, i, i + Len(sub) - 1) = sub

\* s[-4:]
Last4(s) == IF Len(s) <= 4 THEN s ELSE SubSeq(s, Len(s) - 3, Len(s))

\* s.replace(' ', '')
RECURSIVE RemoveSpaces(_)
RemoveSpaces(s) ==
    IF s = <<>> THEN <<>>
    ELSE IF Head(s) = " " THEN RemoveSpaces(Tail(s))
    ELSE <<Head(s)>> \o RemoveSpaces(Tail(s))

\* ------------------------------------------------------------------------
\* difflib.SequenceMatcher(None, a, b).ratio(), as the exact fraction
\* <<2 * matches, len(a) + len(b)>>.  (autojunk only acts on len(b) >= 200.)
\* ------------------------------------------------------------------------

\* Length of the common run of a[i..ahi] and b[j..bhi].
RECURSIVE RunLen(_, _, _, _, _, _)
RunLen(a, b, i, j, ahi, bhi) ==
    IF i <= ahi /\ j <= bhi /\ a[i] = b[j]
    THEN 1 + RunLen(a, b, i + 1, j + 1, ahi, bhi)
    ELSE 0

\* find_longest_match: the longest block; among those the earliest in a,
\* then the earliest in b.  <<i, j, k>>, k = 0 when nothing matches.
FindLongestMatch(a, b, alo, ahi, blo, bhi) ==
    LET cand == {<<i, j, RunLen(a, b, i, j, ahi, bhi)>> : i \in alo..ahi, j \in blo..bhi}
        hits == {c \in cand : c[3] > 0}
        best == CHOOSE c \in hits : \A d \in hits :
                    \/ c[3] > d[3]
                    \/ c[3] = d[3] /\ c[1] < d[1]
                    \/ c[3] = d[3] /\ c[1] = d[1] /\ c[2] <= d[2]
    IN  IF hits = {} THEN <<alo, blo, 0>> ELSE best

\* get_matching_blocks: total size of the blocks found left and right of
\* the longest one, recursively.
RECURSIVE MatchCount(_, _, _, _, _, _)
MatchCount(a, b, alo, ahi, blo, bhi) ==
    IF alo > ahi \/ blo > bhi THEN 0
    ELSE LET m == FindLongestMatch(a, b, alo, ahi, blo, bhi)
         IN  IF m[3] = 0 THEN 0
             ELSE m[3]
                  + MatchCount(a, b, alo, m[1] - 1, blo, m[2] - 1)
                  + MatchCount(a, b, m[1] + m[3], ahi, m[2] + m[3], bhi)

\* _fuzzy_match(str1, str2) as <<numerator, denominator>>; 1.0 is <<1, 1>>.
FuzzyMatch(s1, s2) ==
    IF Len(s1) + Len(s2) = 0 THEN <<1, 1>>
    ELSE <<2 * MatchCount(s1, s2, 1, Len(s1), 1, Len(s2)), Len(s1) + Len(s2)>>

\* name_score < 0.65 (a ratio n/d against 65/100, exactly)
NameThresholdPct == 65

\* A variant of BelowNameThreshold: name_score <= 0.65 rejects
BelowNameThreshold_Inclusive(r) == r[1] * 100 <= NameThresholdPct * r[2]

BelowNameThreshold(r) == r[1] * 100 < NameThresholdPct * r[2]

\* ------------------------------------------------------------------------
\* OCR text: identifier pattern and keywords
\* ------------------------------------------------------------------------

IsWordChar(c) ==
    \/ c \in DigitChars
    \/ c = "_"
    \/ \E k \in 1..26 : c = UpperChars[k] \/ c = LowerChars[k]

\* First index >= i of s that is not whitespace (\s*, greedy).
RECURSIVE SkipSpaces(_, _)
SkipSpaces(s, i) ==
    IF i <= Len(s) /\ s[i] \in SpaceChars THEN SkipSpaces(s, i + 1) ELSE i

FourDigitsAt(s, i) ==
    /\ i >= 1
    /\ i + 3 <= Len(s)
    /\ \A k \in i..(i + 3) : s[k] \in DigitChars

\* A match of \b\d{4}\s*\d{4}\s*\d{4}\b starting at i: its last index, or
\* 0 if there is none.
AadhaarMatchEnd(s, i) ==
    LET j == SkipSpaces(s, i + 4)
        k == SkipSpaces(s, j + 4)
    IN  IF /\ (i = 1 \/ ~IsWordChar(s[i - 1]))
           /\ FourDigitsAt(s, i)
           /\ FourDigitsAt(s, j)
           /\ FourDigitsAt(s, k)
           /\ (k + 3 = Len(s) \/ ~IsWordChar(s[k + 4]))
        THEN k + 3
        ELSE 0

\* re.findall(aadhaar_pattern, text): the list is non-empty
HasAadhaarMatch(text) == \E i \in 1..Len(text) : AadhaarMatchEnd(text, i) > 0

\* found_numbers[0]: the leftmost match, as matched
FirstAadhaarMatch(text) ==
    LET i == CHOOSE a \in 1..Len(text) :
                 /\ AadhaarMatchEnd(text, a) > 0
                 /\ \A b \in 1..(a - 1) : AadhaarMatchEnd(text, b) = 0
    IN  SubSeq(text, i, AadhaarMatchEnd(text, i))

\* sum(1 for kw in keywords if kw in text_lower)
CountMatches(keywords, textLower) ==
    Cardinality({i \in 1..Len(keywords) : Contains(keywords[i], textLower)})

\* str.split(): the whitespace-separated tokens
RECURSIVE Split(_)
Split(s) ==
    LET start == SkipSpaces(s, 1)
        stop  == CHOOSE e \in start..(Len(s) + 1) :
                     /\ (e = Len(s) + 1 \/ s[e] \in SpaceChars)
                     /\ \A k \in start..(e - 1) : s[k] \notin SpaceChars
    IN  IF start > Len(s) THEN <<>>
        ELSE <<SubSeq(s, start, stop - 1)>> \o Split(SubSeq(s, stop, Len(s)))

\* ------------------------------------------------------------------------
\* Inputs: users, files, QR payloads, recognised texts
\* ------------------------------------------------------------------------

Threads == {1, 2}

SupportedDocTypes == {"aadhaar", "caste_certificate", "income_certificate", "fir_copy"}

DocTypes == SupportedDocTypes \cup {"passport"}

\* The logged-in user (models.User).  usable = FALSE is an object whose
\* attributes cannot be read (None, or an instance detached from its session).
Users ==
    { [usable |-> TRUE,  aadhaar_number |-> Str("123456789012"), full_name |-> Str("Ram Das")],
      [usable |-> TRUE,  aadhaar_number |-> Str("123456789012"), full_name |-> Str("Krishna Kumar Sharma")],
      [usable |-> TRUE,  aadhaar_number |-> <<>>,                full_name |-> Str("Ram Das")],
      [usable |-> FALSE, aadhaar_number |-> <<>>,                full_name |-> <<>>] }

\* One call of verify_document_with_ocr: the document type, the user, the
\* uploaded file (its extension, whether it can be decoded or rendered) and
\* whether the process could import pyzbar.
Requests ==
    [docType : DocTypes, user : Users, ext : {".jpg", ".pdf"},
     readable : BOOLEAN, pyzbar : BOOLEAN]

\* Payloads a QR code of the document may carry.  form is the encoding:
\*   sqr3       3-digit decimal groups of a Secure-QR block
\*   xml        plain XML with the attributes uid, name
\*   xml_bad    starts with "<", is not well-formed
\*   xml_padded XML after more than ten blanks
\*   zlib       zlib-compressed XML (binary)
\*   b64zlib    base64 of zlib-compressed XML
\*   attrs      text that is no XML and holds uid="..." name="..."
\*   junk       anything else (a URL, ...)
\* len is the payload's length, typ the Python type it is delivered as.
QRIds == {Str("123456789012"), Str("999999999012"), Str("123456780000"),
          Str("999999990000"), Str("xxxxxxxx9012"), <<>>}

QRNames == {Str("Ram Das"), Str(" RAM DAS"), Str("Ram"), Str("Sita Devi"),
            Str("Krishna Kumar-Jolted")}

QRPayloads ==
    [form : {"xml"}, typ : {"raw"}, uid : QRIds, name : QRNames, len : {57}]
    \cup [form : {"sqr3", "xml_bad", "xml_padded", "zlib", "b64zlib", "attrs", "junk"},
          typ : {"raw"}, uid : {Str("123456789012")}, name : {Str("Ram Das")}, len : {120}]
    \cup [form : {"xml", "junk"}, typ : {"raw"}, uid : {Str("123456789012")},
          name : {Str("Ram Das")}, len : {50}]

NoQR == [form |-> "none", typ |-> "none", uid |-> <<>>, name |-> <<>>, len |-> 0]

\* Texts the OCR engine may return.
Texts ==
    { <<>>,
      Str("Ram Das 1234 5678 9012"),
      Str("1234 5678 9012"),
      Str("9999 9999 9012 Ram Das"),
      Str("1234\n5678\n9012"),
      Str("Income Certificate Annual Ram Das"),
      Str("Income Certificate"),
      Str("Income ") \o <<"dev:praman", "dev:patra", " ", "dev:ram", " ", "dev:das">>,
      Str("Caste Certificate Government Ram Das"),
      Str("Scheduled Caste Certificate Government Community Ram Das"),
      Str("FIR Police Station Complaint Case Ram Das") }

\* len(qr_data) > 50
MinQrLen == 50

\* ------------------------------------------------------------------------
\* QR payload parsing
\* ------------------------------------------------------------------------

\* bytes -> str -> bytes with errors='ignore' (obj.data.decode('utf-8',
\* errors='ignore'), then .encode()): a binary payload loses its bytes that
\* are not UTF-8 and is no zlib stream any more.
Utf8Ignore(p) == IF p.form = "zlib" THEN [p EXCEPT !.form = "junk"] ELSE p

NoXml == [ok |-> FALSE, via |-> "none", wf |-> FALSE, uid |-> <<>>, name |-> <<>>]

\* The encodings parse_qr_universal tries, in the order of its code.
Candidates == <<"sqr3", "xml", "zlib", "b64zlib">>

\* The try block of a candidate completes without an exception:
\*   sqr3     s.isdigit() and len(s) % 3 == 0, and parse_sqr3(raw) succeeds
\*   xml      b"<" in raw[:10] (or raw starts with it), and raw.decode()
\*   zlib     zlib.decompress(raw).decode()
\*   b64zlib  zlib.decompress(base64.b64decode(raw)).decode()
\* A zlib stream with a stored block holds the "<" of its XML at offset 7
\* (zlib_stored); such a stream can be UTF-8 text as a whole (zlib_utf8).
CandidateParses(c, p) ==
    CASE c = "sqr3"    -> p.form = "sqr3"
      [] c = "xml"     -> p.form \in {"xml", "xml_bad", "zlib_utf8"}
      [] c = "zlib"    -> p.form \in {"zlib", "zlib_stored", "zlib_utf8"}
      [] c = "b64zlib" -> p.form = "b64zlib"
      [] OTHER         -> FALSE

\* The "xml" of the mapping a candidate returns: the raw text for the plain
\* XML candidate, the decompressed text for the others.
CandidateXml(c, p) ==
    [ok |-> TRUE, via |-> c,
     wf |-> IF c = "xml" THEN p.form = "xml" ELSE TRUE,
     uid |-> p.uid, name |-> p.name]

\* A variant of ParseQrUniversal: decompression is tried before plain XML
ParseQrUniversal_ZlibFirst(p) ==
    LET order == <<"sqr3", "zlib", "xml", "b64zlib">>
        hits == {i \in 1..Len(order) : CandidateParses(order[i], p)}
    IN  IF hits = {} THEN NoXml
        ELSE CandidateXml(order[CHOOSE i \in hits : \A j \in hits : i <= j], p)

\* parse_qr_universal(raw): ok = FALSE is the raised "Unknown QR format".
ParseQrUniversal(p) ==
    LET hits == {i \in 1..Len(Candidates) : CandidateParses(Candidates[i], p)}
    IN  IF hits = {} THEN NoXml
        ELSE CandidateXml(Candidates[CHOOSE i \in hits : \A j \in hits : i <= j], p)

NoFields == [aadhaar_number |-> <<>>, name |-> <<>>]

\* extract_fields_from_xml(xml): {} when the XML does not parse
ExtractFieldsFromXml(x) ==
    IF x.wf THEN [aadhaar_number |-> x.uid, name |-> x.name] ELSE NoFields

\* uid="(\d{12})"
IsTwelveDigits(s) == Len(s) = 12 /\ \A i \in 1..12 : s[i] \in DigitChars

\* _parse_aadhaar_qr(qr_data): ET.fromstring, else the regular expressions,
\* which raise TypeError on bytes.  raised = TRUE is that error.
ParseAadhaarQrLegacy(p) ==
    CASE p.form \in {"xml", "xml_padded"} ->
            [raised |-> FALSE, fields |-> [aadhaar_number |-> p.uid, name |-> p.name]]
      [] p.typ = "bytes" ->
            [raised |-> TRUE, fields |-> NoFields]
      [] p.form \in {"attrs", "xml_bad"} ->
            [raised |-> FALSE,
             fields |-> [aadhaar_number |-> IF IsTwelveDigits(p.uid) THEN p.uid ELSE <<>>,
                         name |-> p.name]]
      [] OTHER ->
            [raised |-> FALSE, fields |-> NoFields]

\* _parse_aadhaar_qr_enhanced(qr_data)
\*   universalFailed: the step UNIVERSAL_QR_PARSING/error was recorded
ParseAadhaarQrEnhanced(p) ==
    LET u == ParseQrUniversal(p)
        l == ParseAadhaarQrLegacy(p)
    IN  IF u.ok
        THEN [universalFailed |-> FALSE, raised |-> FALSE, fields |-> ExtractFieldsFromXml(u)]
        ELSE [universalFailed |-> TRUE, raised |-> l.raised, fields |-> l.fields]

\* ------------------------------------------------------------------------
\* State
\* ------------------------------------------------------------------------

VARIABLES
    pc,          \* pc[t]: where request t stands in the code
    req,         \* req[t]: the arguments of the call
    loc,         \* loc[t]: the local variables of the call
    verdict,     \* verdict[t]: the mapping returned to the caller
    log,         \* log[t]: the steps request t itself recorded, in order
    heap,        \* the list objects ever bound to verification_steps
    agentSteps,  \* _verification_agent.verification_steps: an index of heap
    classifier_instance,  \* priority_classifier._classifier_instance (0: None)
    instances,   \* how many NLPPriorityClassifier objects were constructed
    db           \* the rows of the tables cases and grievances

vars == <<pc, req, loc, verdict, log, heap, agentSteps, classifier_instance, instances, db>>

\* The module-level state of priority_classifier
nlp == <<classifier_instance, instances>>

\* The tables before any row is written
NoRows == [cases |-> <<>>, grievances |-> <<>>]

\* An entry of verification_steps; by is the request that recorded it.
St(name, status, t) == [step |-> name, status |-> status, by |-> t]

\* A returned mapping.  An absent key is "", <<>>, FALSE, -1 or {};
\* audit_trail is the list the mapping refers to (has_trail: the key exists).
NoVerdict ==
    [verified |-> FALSE, error |-> <<>>, reason |-> "", security_alert |-> FALSE,
     confidence |-> -1, method |-> "", name_matched |-> FALSE, matched_fields |-> {},
     has_trail |-> FALSE, audit_trail |-> 0]

WithTrail(v) == [v EXCEPT !.has_trail = TRUE, !.audit_trail = agentSteps]

NoLocals ==
    [qr |-> NoQR, qr_result |-> <<>>, fields |-> NoFields, idx |-> 0,
     aadhaar_found |-> <<>>, name_found |-> FALSE, text |-> <<>>, exc |-> "",
     attempts |-> <<>>, dpi |-> 0, fn |-> "", arg |-> <<>>, ret |-> <<>>, instance |-> 0,
     decoded |-> NoQR]

\* The audit trail the caller reads from a returned mapping.
Trail(v) == IF v.has_trail THEN heap[v.audit_trail] ELSE <<>>

\* self.verification_steps.append(...), once per element of steps
Record(t, steps) ==
    /\ heap' = [heap EXCEPT ![agentSteps] = @ \o steps]
    /\ log' = [log EXCEPT ![t] = @ \o steps]
    /\ UNCHANGED agentSteps

Goto(t, where) == pc' = [pc EXCEPT ![t] = where]

\* return v
Return(t, v) ==
    /\ verdict' = [verdict EXCEPT ![t] = v]
    /\ pc' = [pc EXCEPT ![t] = "done"]

\* A variant of HandlerOf: The exception of verify_aadhaar_card's body leaves the function.
HandlerOf_NoAadhaarHandler(frame) ==
    CASE frame = "cert"     -> "cert_except"
      [] frame = "dispatch" -> "outer_except"
      [] OTHER              -> "raised"

\* The except clause that catches an exception leaving the body of a function.
HandlerOf(frame) ==
    CASE frame = "aadhaar"  -> "aadhaar_except"
      [] frame = "cert"     -> "cert_except"
      [] frame = "dispatch" -> "outer_except"
      [] OTHER              -> "raised"

\* raise Exception(msg) inside frame
Raise(t, frame, msg) ==
    /\ pc' = [pc EXCEPT ![t] = HandlerOf(frame)]
    /\ loc' = [loc EXCEPT ![t].exc = msg]

\* An earlier request leaves its trail bound to the agent.
PriorTrails == {<<>>, <<St("MOCK_API_SETU_CALL", "", 0)>>}

IdleRequest ==
    [docType |-> "passport", user |-> CHOOSE u \in Users : ~u.usable,
     ext |-> ".jpg", readable |-> FALSE, pyzbar |-> FALSE]

Init ==
    /\ \E r \in Requests :
        /\ req = [t \in Threads |-> IF t = 1 THEN r ELSE IdleRequest]
    /\ pc = [t \in Threads |-> IF t = 1 THEN "call" ELSE "idle"]
    /\ loc = [t \in Threads |-> NoLocals]
    /\ verdict = [t \in Threads |-> NoVerdict]
    /\ log = [t \in Threads |-> <<>>]
    /\ \E prior \in PriorTrails : heap = <<prior>>
    /\ agentSteps = 1
    /\ classifier_instance = 0
    /\ instances = 0
    /\ db = NoRows

\* ------------------------------------------------------------------------
\* verify_document_with_ocr
\* ------------------------------------------------------------------------

Dispatch(t) ==
    /\ pc[t] = "call"
    /\ UNCHANGED <<nlp, db>>
    /\ LET r == req[t] IN
       CASE ~r.user.usable /\ r.docType \in SupportedDocTypes ->
                /\ Raise(t, "dispatch", "user attribute unreadable")
                /\ UNCHANGED verdict
         [] r.user.usable /\ r.docType = "aadhaar" /\ r.user.aadhaar_number = <<>> ->
                /\ Return(t, [NoVerdict EXCEPT
                       !.error = <<"User Aadhaar number not registered in profile">>])
                /\ UNCHANGED loc
         [] r.user.usable /\ r.docType = "aadhaar" /\ r.user.aadhaar_number # <<>> ->
                Goto(t, "reset") /\ UNCHANGED <<verdict, loc>>
         [] r.user.usable /\ r.docType \in {"caste_certificate", "income_certificate"} ->
                Goto(t, "reset") /\ UNCHANGED <<verdict, loc>>
         [] r.user.usable /\ r.docType = "fir_copy" ->
                Goto(t, "basic_ocr") /\ UNCHANGED <<verdict, loc>>
         [] OTHER ->
                /\ Return(t, [NoVerdict EXCEPT !.error = <<"Unsupported document type">>])
                /\ UNCHANGED loc
    /\ UNCHANGED <<req, log, heap, agentSteps>>

\* except Exception as e  (of verify_document_with_ocr)
OuterExcept(t) ==
    /\ pc[t] = "outer_except"
    /\ UNCHANGED <<nlp, db>>
    /\ Return(t, [NoVerdict EXCEPT !.error = <<loc[t].exc>>, !.security_alert = TRUE])
    /\ UNCHANGED <<req, loc, log, heap, agentSteps>>

\* self.verification_steps = []   (first statement of verify_aadhaar_card,
\* verify_caste_certificate and verify_income_certificate)
ResetSteps(t) ==
    /\ pc[t] = "reset"
    /\ UNCHANGED <<nlp, db>>
    /\ heap' = Append(heap, <<>>)
    /\ agentSteps' = Len(heap) + 1
    /\ log' = [log EXCEPT ![t] = <<>>]
    /\ Goto(t, CASE req[t].docType = "aadhaar" -> "aadhaar_load"
                 [] req[t].docType = "caste_certificate" -> "caste_qr"
                 [] OTHER -> "income_begin")
    /\ UNCHANGED <<req, loc, verdict>>

\* ------------------------------------------------------------------------
\* DocumentVerificationAgent.verify_aadhaar_card
\* ------------------------------------------------------------------------

\* for dpi in [600, 500, 400, 300]
DpiLevels == <<600, 500, 400, 300>>

\* A variant of DpiAt: the lowest resolution first
DpiAt_Ascending(i) == DpiLevels[Len(DpiLevels) + 1 - i]

\* The resolution of the i-th turn of the loop of render_pdf_to_image
DpiAt(i) == DpiLevels[i]

\* File type check; cv2.imread for an image
AadhaarLoad(t) ==
    /\ pc[t] = "aadhaar_load"
    /\ UNCHANGED <<nlp, db>>
    /\ LET r == req[t] IN
       CASE r.ext = ".pdf" ->
                /\ Record(t, <<St("PDF_DETECTION", "detected", t)>>)
                /\ Goto(t, "render")
                /\ UNCHANGED verdict
         [] r.ext # ".pdf" /\ r.readable ->
                /\ Goto(t, "qr_start")
                /\ UNCHANGED <<verdict, log, heap, agentSteps>>
         [] OTHER ->
                /\ Return(t, WithTrail([NoVerdict EXCEPT
                       !.error = <<"Unable to read image file">>]))
                /\ UNCHANGED <<log, heap, agentSteps>>
    /\ UNCHANGED <<req, loc>>

\* One turn of the loop of render_pdf_to_image: convert_from_path raises,
\* returns no page, or returns pages.  A file that cannot be rendered
\* (readable = FALSE) gives no page at any resolution, a file that can gives
\* one at 300 DPI at the latest.  After the last failure the exception
\* "Failed to render PDF at any DPI level" is caught in verify_aadhaar_card.
RenderAttempt(t) ==
    /\ pc[t] = "render"
    /\ UNCHANGED <<nlp, db>>
    /\ LET i == Len(loc[t].attempts) + 1
           outcomes == IF ~req[t].readable THEN {"raise", "empty"}
                       ELSE IF i = Len(DpiLevels) THEN {"page"}
                       ELSE {"raise", "empty", "page"}
       IN  \E o \in outcomes :
             CASE o = "page" ->
                    /\ loc' = [loc EXCEPT ![t].attempts = Append(@, DpiAt(i)),
                                          ![t].dpi = DpiAt(i)]
                    /\ Record(t, <<St("PDF_CONVERSION", "success", t)>>)
                    /\ Goto(t, "qr_start")
                    /\ UNCHANGED verdict
               [] o # "page" /\ i < Len(DpiLevels) ->
                    /\ loc' = [loc EXCEPT ![t].attempts = Append(@, DpiAt(i))]
                    /\ UNCHANGED <<pc, verdict, log, heap, agentSteps>>
               [] OTHER ->
                    /\ loc' = [loc EXCEPT ![t].attempts = Append(@, DpiAt(i))]
                    /\ Record(t, <<St("PDF_CONVERSION", "failed", t)>>)
                    /\ Return(t, WithTrail([NoVerdict EXCEPT
                           !.error = <<"PDF conversion failed: ",
                                       "Failed to render PDF at any DPI level">>]))
    /\ UNCHANGED req

\* _extract_and_verify_aadhaar_qr: the first recorded step
QrStart(t) ==
    /\ pc[t] = "qr_start"
    /\ UNCHANGED <<nlp, db>>
    /\ Record(t, <<St("QR_EXTRACTION_ATTEMPT", "started", t)>>)
    /\ Goto(t, IF req[t].ext = ".pdf" THEN "qr_enhanced" ELSE "qr_pyzbar")
    /\ UNCHANGED <<req, loc, verdict>>

\* What _detect_qr_enhanced(image) may do: raise, return None, return the
\* payload an OpenCV method decoded (len > 50, data.encode()), or return the
\* data of the first barcode pyzbar decoded (barcodes[0].data).
EnhancedOutcomes(r) ==
    {[kind |-> "raise", qr |-> NoQR, decoded |-> NoQR],
     [kind |-> "none", qr |-> NoQR, decoded |-> NoQR]}
    \cup {[kind |-> "opencv", qr |-> [Utf8Ignore(p) EXCEPT !.typ = "bytes"], decoded |-> p] :
            p \in {q \in QRPayloads : q.len > MinQrLen}}
    \cup {[kind |-> "pyzbar", qr |-> [p EXCEPT !.typ = "bytes"], decoded |-> p] :
            p \in {q \in QRPayloads : r.pyzbar}}

\* Enhanced detection, for PDFs only
QrEnhanced(t) ==
    /\ pc[t] = "qr_enhanced"
    /\ UNCHANGED <<nlp, db>>
    /\ \E o \in EnhancedOutcomes(req[t]) :
        /\ Record(t, <<St("TRYING_ENHANCED_PDF_QR_DETECTION", "started", t)>>
                     \o IF o.kind = "raise"
                        THEN <<St("ENHANCED_PDF_QR_DETECTION", "failed", t)>>
                        ELSE <<>>)
        /\ loc' = [loc EXCEPT ![t].qr = o.qr, ![t].decoded = o.decoded]
    /\ Goto(t, "qr_pyzbar")
    /\ UNCHANGED <<req, verdict>>

\* What pyzbar.decode followed by _parse_qr_objects may give: an exception,
\* nothing, or the text of a QR code (kept only if longer than 50).
PyzbarOutcomes ==
    {[kind |-> "raise", qr |-> NoQR, decoded |-> NoQR],
     [kind |-> "none", qr |-> NoQR, decoded |-> NoQR]}
    \cup {[kind |-> "decoded", qr |-> [Utf8Ignore(p) EXCEPT !.typ = "str"], decoded |-> p] :
            p \in QRPayloads}

\* _parse_qr_objects(decoded): the steps it records and the data it returns
ParseQrObjects(o, t) ==
    IF o.kind = "decoded" /\ o.qr.len > MinQrLen
    THEN [qr |-> o.qr, decoded |-> o.decoded,
          steps |-> <<St("QR_DATA_EXTRACTED", "success", t), St("PYZBAR_SUCCESS", "", t)>>]
    ELSE [qr |-> NoQR, decoded |-> NoQR, steps |-> <<>>]

\* Method 1: pyzbar on the original image
QrPyzbarDirect(t) ==
    /\ pc[t] = "qr_pyzbar"
    /\ UNCHANGED <<nlp, db>>
    /\ IF loc[t].qr = NoQR /\ req[t].pyzbar
       THEN \E o \in PyzbarOutcomes :
               LET got == ParseQrObjects(o, t) IN
               /\ Record(t, <<St("TRYING_PYZBAR", "started", t)>>
                            \o (IF o.kind = "raise"
                                THEN <<St("PYZBAR_ERROR", "", t)>> ELSE <<>>)
                            \o got.steps)
               /\ loc' = [loc EXCEPT ![t].qr = got.qr, ![t].decoded = got.decoded]
               /\ Goto(t, IF got.qr = NoQR THEN "qr_pyzbar_gray" ELSE "qr_opencv")
       ELSE /\ Record(t, IF loc[t].qr = NoQR
                         THEN <<St("PYZBAR_NOT_AVAILABLE", "", t)>> ELSE <<>>)
            /\ Goto(t, "qr_opencv")
            /\ UNCHANGED loc
    /\ UNCHANGED <<req, verdict>>

\* pyzbar on the grayscale image
QrPyzbarGray(t) ==
    /\ pc[t] = "qr_pyzbar_gray"
    /\ UNCHANGED <<nlp, db>>
    /\ \E o \in PyzbarOutcomes :
        LET got == ParseQrObjects(o, t) IN
        /\ Record(t, (IF o.kind = "raise"
                      THEN <<St("PYZBAR_GRAYSCALE_ERROR", "", t)>> ELSE <<>>)
                     \o got.steps)
        /\ loc' = [loc EXCEPT ![t].qr = got.qr, ![t].decoded = got.decoded]
    /\ Goto(t, "qr_opencv")
    /\ UNCHANGED <<req, verdict>>

\* What _extract_qr_with_opencv(image) may do: an exception (caught inside),
\* no QR, or a decoded text longer than 50.
OpencvOutcomes ==
    {[kind |-> "raise", qr |-> NoQR, decoded |-> NoQR],
     [kind |-> "none", qr |-> NoQR, decoded |-> NoQR]}
    \cup {[kind |-> "decoded", qr |-> [Utf8Ignore(p) EXCEPT !.typ = "str"], decoded |-> p] :
            p \in {q \in QRPayloads : q.len > MinQrLen}}

\* Method 2: OpenCV detector, then the outcome of the extraction
QrOpencv(t) ==
    /\ pc[t] = "qr_opencv"
    /\ UNCHANGED <<nlp, db>>
    /\ \E o \in (IF loc[t].qr = NoQR THEN OpencvOutcomes
                 ELSE {[kind |-> "skipped", qr |-> loc[t].qr, decoded |-> loc[t].decoded]}) :
        /\ Record(t, (CASE o.kind = "skipped" -> <<>>
                        [] o.kind = "raise" ->
                             <<St("TRYING_OPENCV_DETECTOR", "started", t),
                               St("QR_EXTRACTION_OPENCV", "error", t)>>
                        [] o.kind = "none" ->
                             <<St("TRYING_OPENCV_DETECTOR", "started", t),
                               St("QR_EXTRACTION_OPENCV", "no_qr_found", t)>>
                        [] OTHER ->
                             <<St("TRYING_OPENCV_DETECTOR", "started", t),
                               St("QR_EXTRACTION_OPENCV", "success", t)>>)
                     \o <<St("QR_EXTRACTION",
                             IF o.qr = NoQR THEN "failed_all_methods" ELSE "success", t)>>)
        /\ loc' = [loc EXCEPT ![t].qr = o.qr, ![t].decoded = o.decoded]
        /\ Goto(t, IF o.qr = NoQR THEN "after_qr" ELSE "qr_parse")
    /\ UNCHANGED <<req, verdict>>

\* extracted_data = self._parse_aadhaar_qr_enhanced(qr_data)
QrParse(t) ==
    /\ pc[t] = "qr_parse"
    /\ UNCHANGED <<nlp, db>>
    /\ LET got == ParseAadhaarQrEnhanced(loc[t].qr)
           failed == IF got.universalFailed
                     THEN <<St("UNIVERSAL_QR_PARSING", "error", t)>> ELSE <<>>
       IN  CASE got.raised ->
                    /\ Record(t, failed)
                    /\ Raise(t, "aadhaar",
                             "cannot use a string pattern on a bytes-like object")
             [] ~got.raised /\ got.fields.aadhaar_number = <<>> ->
                    /\ Record(t, failed \o <<St("QR_PARSING", "failed", t)>>)
                    /\ loc' = [loc EXCEPT ![t].fields = got.fields]
                    /\ Goto(t, "after_qr")
             [] OTHER ->
                    /\ Record(t, failed \o <<St("QR_PARSING", "success", t)>>)
                    /\ loc' = [loc EXCEPT ![t].fields = got.fields]
                    /\ Goto(t, "qr_verify")
    /\ UNCHANGED <<req, verdict>>

\* SECURITY CHECK 1: the Aadhaar number of the QR against the profile
IsFullMatch(extracted, claimed) == extracted = claimed

\* A variant of IsLast4Match: The identifier check without the last-four tolerance
IsLast4Match_Never(extracted, claimed) == FALSE

IsLast4Match(extracted, claimed) ==
    claimed # <<>> /\ extracted # <<>> /\ Last4(extracted) = Last4(claimed)

IdentifierCheckPasses(extracted, claimed) ==
    IsFullMatch(extracted, claimed) \/ IsLast4Match(extracted, claimed)

\* SECURITY CHECK 2: name_score >= 0.65
NameCheckPasses(userName, docName) ==
    ~BelowNameThreshold(FuzzyMatch(Strip(Lower(userName)), Strip(Lower(docName))))

\* The two security checks of _extract_and_verify_aadhaar_qr and what it
\* returns; the mapping is the qr_result of verify_aadhaar_card.
QrVerify(t) ==
    /\ pc[t] = "qr_verify"
    /\ UNCHANGED <<nlp, db>>
    /\ LET f == loc[t].fields
           u == req[t].user
           idOk == IdentifierCheckPasses(f.aadhaar_number, u.aadhaar_number)
           nameOk == NameCheckPasses(u.full_name, f.name)
           idStep == St("AADHAAR_VERIFICATION",
                        IF ~idOk THEN "FAILED"
                        ELSE IF IsFullMatch(f.aadhaar_number, u.aadhaar_number)
                             THEN "PASSED" ELSE "PASSED_WITH_WARNING", t)
           v == CASE ~idOk ->
                       [NoVerdict EXCEPT !.reason = "Aadhaar number mismatch",
                                         !.security_alert = TRUE]
                  [] idOk /\ ~nameOk ->
                       [NoVerdict EXCEPT !.reason = "Name mismatch",
                                         !.security_alert = TRUE]
                  [] OTHER ->
                       [NoVerdict EXCEPT !.verified = TRUE, !.confidence = 9500,
                                         !.method = "QR_CODE_VALIDATION_UNIVERSAL",
                                         !.matched_fields = {"aadhaar_number", "name"}]
       IN  /\ Record(t, <<idStep>>
                        \o (IF idOk
                            THEN <<St("NAME_VERIFICATION", "checking", t),
                                   St("NAME_VERIFICATION",
                                      IF nameOk THEN "PASSED" ELSE "FAILED", t)>>
                            ELSE <<>>))
           /\ loc' = [loc EXCEPT ![t].qr_result = <<WithTrail(v)>>]
    /\ Goto(t, "after_qr")
    /\ UNCHANGED <<req, verdict>>

\* A variant of QrResultIsVerdict: if qr_result.get("verified"):  a rejected verdict falls through
QrResultIsVerdict_Truthy(qr_result) == qr_result # <<>> /\ qr_result[1].verified

\* qr_result.get("verified") is not None  ({} is <<>>)
QrResultIsVerdict(qr_result) == qr_result # <<>>

\* verify_aadhaar_card after the QR stage: return its verdict, or fall back
AfterQr(t) ==
    /\ pc[t] = "after_qr"
    /\ UNCHANGED <<nlp, db>>
    /\ IF QrResultIsVerdict(loc[t].qr_result)
       THEN Return(t, loc[t].qr_result[1])
       ELSE Goto(t, "ocr_start") /\ UNCHANGED verdict
    /\ UNCHANGED <<req, loc, log, heap, agentSteps>>

\* languages_to_try
\* A variant of LanguagesToTry: plain English first
LanguagesToTry_EngFirst == <<"eng", "eng+hin", "hin", "eng+tam", "eng+tel">>

LanguagesToTry == <<"eng+hin", "eng", "hin", "eng+tam", "eng+tel">>

\* _verify_aadhaar_multilang_ocr: the first step and Image.open(file_path),
\* which cannot read a PDF
OcrStart(t) ==
    /\ pc[t] = "ocr_start"
    /\ UNCHANGED <<nlp, db>>
    /\ Record(t, <<St("MULTILANG_OCR_FALLBACK", "", t)>>)
    /\ IF req[t].ext = ".pdf" \/ ~req[t].readable
       THEN Raise(t, "aadhaar", "cannot identify image file")
       ELSE /\ Goto(t, "ocr_lang")
            /\ loc' = [loc EXCEPT ![t].idx = 1]
    /\ UNCHANGED <<req, verdict>>

\* One turn of the loop over languages_to_try: the engine fails, or returns
\* a text.
OcrAttempt(t) ==
    /\ pc[t] = "ocr_lang"
    /\ UNCHANGED <<nlp, db>>
    /\ loc[t].idx <= Len(LanguagesToTry)
    /\ LET lang == LanguagesToTry[loc[t].idx] IN
       \E o \in {[raised |-> TRUE, text |-> <<>>]}
                \cup {[raised |-> FALSE, text |-> x] : x \in Texts} :
          IF o.raised
          THEN /\ Record(t, <<St("OCR_ATTEMPT_" \o lang, "error", t)>>)
               /\ loc' = [loc EXCEPT ![t].idx = @ + 1]
               /\ Goto(t, IF loc[t].idx = Len(LanguagesToTry) THEN "ocr_verify" ELSE "ocr_lang")
          ELSE /\ Record(t, <<St("OCR_ATTEMPT_" \o lang, "", t)>>)
               /\ IF HasAadhaarMatch(o.text)
                  THEN /\ loc' = [loc EXCEPT
                            ![t].aadhaar_found = RemoveSpaces(FirstAadhaarMatch(o.text)),
                            ![t].name_found = Contains(Lower(req[t].user.full_name),
                                                       Lower(o.text)),
                            ![t].text = o.text]
                       /\ Goto(t, "ocr_verify")
                  ELSE /\ loc' = [loc EXCEPT ![t].idx = @ + 1]
                       /\ Goto(t, IF loc[t].idx = Len(LanguagesToTry)
                                  THEN "ocr_verify" ELSE "ocr_lang")
    /\ UNCHANGED <<req, verdict>>

\* A variant of OcrVerdict: The OCR fallback with the last-four tolerance of the QR path
OcrVerdict_Last4(found, nameFound, claimed) ==
    CASE found # <<>> /\ IdentifierCheckPasses(found, claimed) ->
            [NoVerdict EXCEPT !.verified = TRUE,
                              !.confidence = IF nameFound THEN 6500 ELSE 5000,
                              !.method = "MULTILANG_OCR", !.name_matched = nameFound]
      [] found # <<>> /\ ~IdentifierCheckPasses(found, claimed) ->
            [NoVerdict EXCEPT !.reason = "Aadhaar number mismatch",
                              !.security_alert = TRUE, !.method = "MULTILANG_OCR"]
      [] OTHER ->
            [NoVerdict EXCEPT !.reason = "Unable to extract Aadhaar number from image",
                              !.method = "MULTILANG_OCR"]

\* "Verify extracted data": the mapping the OCR fallback returns
OcrVerdict(found, nameFound, claimed) ==
    CASE found # <<>> /\ found = claimed ->
            [NoVerdict EXCEPT !.verified = TRUE,
                              !.confidence = IF nameFound THEN 6500 ELSE 5000,
                              !.method = "MULTILANG_OCR", !.name_matched = nameFound]
      [] found # <<>> /\ found # claimed ->
            [NoVerdict EXCEPT !.reason = "Aadhaar number mismatch",
                              !.security_alert = TRUE, !.method = "MULTILANG_OCR"]
      [] OTHER ->
            [NoVerdict EXCEPT !.reason = "Unable to extract Aadhaar number from image",
                              !.method = "MULTILANG_OCR"]

OcrVerify(t) ==
    /\ pc[t] = "ocr_verify"
    /\ UNCHANGED <<nlp, db>>
    /\ Return(t, WithTrail(OcrVerdict(loc[t].aadhaar_found, loc[t].name_found,
                                      req[t].user.aadhaar_number)))
    /\ UNCHANGED <<req, loc, log, heap, agentSteps>>

\* except Exception as e  (of verify_aadhaar_card)
AadhaarExcept(t) ==
    /\ pc[t] = "aadhaar_except"
    /\ UNCHANGED <<nlp, db>>
    /\ Return(t, WithTrail([NoVerdict EXCEPT
           !.error = <<"Verification failed: ", loc[t].exc>>]))
    /\ UNCHANGED <<req, loc, log, heap, agentSteps>>

\* ------------------------------------------------------------------------
\* Certificates: keywords, confidence, name matching
\* ------------------------------------------------------------------------
\* A Devanagari word is one element "dev:..." (two for a compound), so that
\* the substring relations between the keywords are kept.  The recognised
\* texts of the model are Latin and Devanagari; the keyword lists of the
\* other eight scripts match none of them and are left out.

\* keywords['english'] + keywords['hindi'] + keywords['marathi']
IncomeKeywords ==
    <<Str("income"), Str("certificate"), Str("annual"), Str("year"), Str("government"),
      Str("tehsildar"), Str("revenue"), Str("valid"), Str("financial"),
      <<"dev:aay">>, <<"dev:praman">>, <<"dev:patra">>, <<"dev:varshik">>,
      <<"dev:rupaye">>, <<"dev:tehsildar">>, <<"dev:shasan">>,
      <<"dev:utpanna">>, <<"dev:dakhla">>, <<"dev:praman", "dev:patra">>,
      <<"dev:varshik">>, <<"dev:varsh">>, <<"dev:tehsildar">>, <<"dev:shasan">>,
      <<"dev:maha">>, <<"dev:seva">> >>

\* english_keywords + hindi_keywords + marathi_keywords
CasteKeywords ==
    <<Str("caste"), Str("certificate"), Str("scheduled caste"), Str("scheduled tribe"),
      Str("sc"), Str("st"), Str("government"), Str("community"),
      <<"dev:jat", "dev:i">>, <<"dev:praman">>, <<"dev:anusuchit">>,
      <<"dev:sarkar">>, <<"dev:samuday">>,
      <<"dev:jat">>, <<"dev:praman", "dev:patra">>, <<"dev:jamat">>, <<"dev:anusuchit">> >>

\* keywords_map["fir_copy"]
FirKeywords ==
    <<Str("fir"), Str("first information report"), Str("police station"),
      Str("complaint"), Str("case"), Str("section"), Str("ipc"), Str("accused")>>

Min(a, b) == IF a <= b THEN a ELSE b

\* round(min((matches / 3) * 100, 95.0), 2), in hundredths
IncomeConfidence(matches) == Min((matches * 20000 + 3) \div 6, 9500)

\* A variant of CasteConfidence: the share of all keywords
CasteConfidence_OfAll(matches) == Min((matches * 10000) \div Len(CasteKeywords), 9500)

\* min((matches / len(english_keywords)) * 100, 95.0), in hundredths
CasteConfidence(matches) == Min((matches * 10000) \div 8, 9500)

\* round((matches / total_keywords) * 100, 2), in hundredths
BasicConfidence(matches) == (matches * 10000) \div Len(FirKeywords)

\* transliterate_text(text, lang_code): the candidates of the remote
\* service, or [text] when text is empty or the request fails (up = FALSE).
TransliterateText(text, up) ==
    CASE text = <<>> \/ ~up        -> {text}
      [] text = Str("Ram Das")     -> {<<"dev:ram", " ", "dev:das">>}
      [] text = Str("Ram")         -> {<<"dev:ram">>}
      [] text = Str("Das")         -> {<<"dev:das">>}
      [] OTHER                     -> {<<"dev:other">>}

\* get_name_variations(name, languages)
GetNameVariations(name, up) ==
    LET parts == Split(name) IN
    {Lower(name)}
    \cup {Lower(x) : x \in TransliterateText(name, up)}
    \cup UNION {{Lower(x) : x \in TransliterateText(parts[i], up)} : i \in 1..Len(parts)}

\* part_matches
PartMatches(parts, textLower, up) ==
    Cardinality({i \in 1..Len(parts) :
        \E pv \in GetNameVariations(parts[i], up) : Contains(pv, textLower)})

\* name_found of verify_income_certificate
IncomeNameFound(userName, textLower, up) ==
    LET parts == Split(userName)
        n == PartMatches(parts, textLower, up)
    IN  \/ \E v \in GetNameVariations(userName, up) : Contains(v, textLower)
        \/ Len(parts) > 0 /\ n = Len(parts)
        \/ Len(parts) >= 3 /\ n >= Len(parts) - 1

\* name_found of _verify_caste_multilang_ocr
CasteNameFound(userName, textLower, up) ==
    LET parts == Split(userName)
        n == PartMatches(parts, textLower, up)
    IN  \/ \E v \in GetNameVariations(userName, up) : Contains(v, textLower)
        \/ Len(parts) > 1 /\ (n = Len(parts) \/ (Len(parts) > 2 /\ n >= Len(parts) - 1))

\* Image.open(file_path) succeeds
PilCanOpen(r) == r.ext # ".pdf" /\ r.readable

\* ------------------------------------------------------------------------
\* DocumentVerificationAgent.verify_caste_certificate
\* ------------------------------------------------------------------------

\* What _extract_qr_code(image) returns: None (also when pyzbar is missing
\* or raises), or the text of the first QR code.
CasteQrOutcomes(r) ==
    {NoQR} \cup {[Utf8Ignore(p) EXCEPT !.typ = "str"] :
                    p \in {q \in QRPayloads : r.pyzbar /\ r.ext # ".pdf" /\ r.readable}}

\* _mock_api_setu_verify(qr_data, doc_type)["verified"]
MockApiSetuVerify(qr) == qr.len > MinQrLen

\* Step 1: QR extraction and the mock registry check
CasteQr(t) ==
    /\ pc[t] = "caste_qr"
    /\ UNCHANGED <<nlp, db>>
    /\ \E qr \in CasteQrOutcomes(req[t]) :
        CASE qr = NoQR ->
                /\ Goto(t, "caste_ocr")
                /\ UNCHANGED <<verdict, log, heap, agentSteps>>
          [] qr # NoQR /\ MockApiSetuVerify(qr) ->
                /\ Record(t, <<St("MOCK_API_SETU_CALL", "", t)>>)
                /\ Return(t, WithTrail([NoVerdict EXCEPT
                       !.verified = TRUE, !.confidence = 8500, !.method = "QR_VALIDATION"]))
          [] OTHER ->
                /\ Record(t, <<St("MOCK_API_SETU_CALL", "", t)>>)
                /\ Goto(t, "caste_ocr")
                /\ UNCHANGED verdict
    /\ UNCHANGED <<req, loc>>

\* The mapping _verify_caste_multilang_ocr returns for a recognised text
CasteVerdict(userName, text, up) ==
    LET textLower == Lower(text)
        confidence == CasteConfidence(CountMatches(CasteKeywords, textLower))
        nameFound == CasteNameFound(userName, textLower, up)
    IN  IF confidence >= 3000 /\ nameFound
        THEN [NoVerdict EXCEPT !.verified = TRUE, !.confidence = Min(confidence, 8500),
                               !.method = "MULTILANG_OCR_TRANSLITERATION",
                               !.name_matched = nameFound]
        ELSE [NoVerdict EXCEPT !.reason = IF ~nameFound THEN "Insufficient evidence"
                                          ELSE "Document type unclear",
                               !.confidence = confidence, !.name_matched = nameFound]

\* Step 2: _verify_caste_multilang_ocr
CasteOcr(t) ==
    /\ pc[t] = "caste_ocr"
    /\ UNCHANGED <<nlp, db>>
    /\ IF ~PilCanOpen(req[t])
       THEN Raise(t, "cert", "cannot identify image file") /\ UNCHANGED verdict
       ELSE \E o \in {[raised |-> TRUE, text |-> <<>>, up |-> FALSE]}
                     \cup [raised : {FALSE}, text : Texts, up : BOOLEAN] :
               IF o.raised
               THEN Raise(t, "cert", "tesseract failed") /\ UNCHANGED verdict
               ELSE /\ Return(t, WithTrail(CasteVerdict(req[t].user.full_name, o.text, o.up)))
                    /\ loc' = [loc EXCEPT ![t].text = o.text]
    /\ UNCHANGED <<req, log, heap, agentSteps>>

\* except Exception as e  (of verify_caste_certificate, of
\* _verify_caste_multilang_ocr and of verify_income_certificate)
CertExcept(t) ==
    /\ pc[t] = "cert_except"
    /\ UNCHANGED <<nlp, db>>
    /\ Return(t, WithTrail([NoVerdict EXCEPT !.error = <<loc[t].exc>>]))
    /\ UNCHANGED <<req, loc, log, heap, agentSteps>>

\* ------------------------------------------------------------------------
\* DocumentVerificationAgent.verify_income_certificate
\* ------------------------------------------------------------------------

IncomeBegin(t) ==
    /\ pc[t] = "income_begin"
    /\ UNCHANGED <<nlp, db>>
    /\ Record(t, <<St("INCOME_CERT_VERIFICATION", "started", t)>>)
    /\ Goto(t, "income_ocr")
    /\ UNCHANGED <<req, loc, verdict>>

\* Image.open and the three attempts of pytesseract.image_to_string
IncomeOcr(t) ==
    /\ pc[t] = "income_ocr"
    /\ UNCHANGED <<nlp, db>>
    /\ IF ~PilCanOpen(req[t])
       THEN /\ Raise(t, "cert", "cannot identify image file")
            /\ UNCHANGED <<log, heap, agentSteps>>
       ELSE \E o \in {[raised |-> TRUE, text |-> <<>>]}
                     \cup [raised : {FALSE}, text : Texts] :
               IF o.raised
               THEN /\ Raise(t, "cert", "tesseract failed")
                    /\ UNCHANGED <<log, heap, agentSteps>>
               ELSE /\ Record(t, <<St("OCR_EXTRACTION", "", t)>>)
                    /\ loc' = [loc EXCEPT ![t].text = o.text]
                    /\ Goto(t, "income_match")
    /\ UNCHANGED <<req, verdict>>

\* The mapping verify_income_certificate builds for a recognised text
IncomeVerdict(userName, text, up) ==
    LET textLower == Lower(text)
        confidence == IncomeConfidence(CountMatches(IncomeKeywords, textLower))
        nameFound == IncomeNameFound(userName, textLower, up)
        verified == confidence >= 2500 /\ nameFound
    IN  [NoVerdict EXCEPT
            !.verified = verified,
            !.method = "UNIVERSAL_MULTILANG_OCR_PLUS_TRANSLITERATION",
            !.confidence = confidence,
            !.name_matched = nameFound,
            !.reason = IF verified THEN ""
                       ELSE IF ~nameFound THEN "Name mismatch" ELSE "Low confidence"]

\* Keywords, name matching, the step NAME_MATCHING_TRANSLITERATED, result
IncomeMatch(t) ==
    /\ pc[t] = "income_match"
    /\ UNCHANGED <<nlp, db>>
    /\ \E up \in BOOLEAN :
        LET v == IncomeVerdict(req[t].user.full_name, loc[t].text, up) IN
        /\ Record(t, <<St("NAME_MATCHING_TRANSLITERATED",
                          IF v.name_matched THEN "match" ELSE "mismatch", t)>>)
        /\ Return(t, WithTrail(v))
    /\ UNCHANGED <<req, loc>>

\* ------------------------------------------------------------------------
\* _verify_document_basic_ocr  (fir_copy)
\* ------------------------------------------------------------------------

BasicVerdict(userName, text) ==
    LET textLower == Lower(text)
        matches == CountMatches(FirKeywords, textLower)
        nameFound == Contains(Lower(userName), textLower)
    IN  [NoVerdict EXCEPT !.verified = (BasicConfidence(matches) >= 4000 /\ nameFound),
                          !.confidence = BasicConfidence(matches),
                          !.method = "BASIC_OCR", !.name_matched = nameFound]

BasicOcr(t) ==
    /\ pc[t] = "basic_ocr"
    /\ UNCHANGED <<nlp, db>>
    /\ \E o \in {[raised |-> TRUE, text |-> <<>>]}
                \cup {[raised |-> FALSE, text |-> x] : x \in {y \in Texts : PilCanOpen(req[t])}} :
        /\ Return(t, IF o.raised
                     THEN [NoVerdict EXCEPT !.error = <<"cannot read or recognise the file">>,
                                            !.confidence = 0]
                     ELSE BasicVerdict(req[t].user.full_name, o.text))
        /\ loc' = [loc EXCEPT ![t].text = o.text,
                              ![t].exc = IF o.raised THEN "cannot read or recognise the file"
                                         ELSE ""]
    /\ UNCHANGED <<req, log, heap, agentSteps>>

\* ------------------------------------------------------------------------
\* Specification: one request on the shared agent
\* ------------------------------------------------------------------------

Next ==
    \E t \in Threads :
        \/ Dispatch(t)
        \/ OuterExcept(t)
        \/ ResetSteps(t)
        \/ AadhaarLoad(t)
        \/ RenderAttempt(t)
        \/ QrStart(t)
        \/ QrEnhanced(t)
        \/ QrPyzbarDirect(t)
        \/ QrPyzbarGray(t)
        \/ QrOpencv(t)
        \/ QrParse(t)
        \/ QrVerify(t)
        \/ AfterQr(t)
        \/ OcrStart(t)
        \/ OcrAttempt(t)
        \/ OcrVerify(t)
        \/ AadhaarExcept(t)
        \/ CasteQr(t)
        \/ CasteOcr(t)
        \/ CertExcept(t)
        \/ IncomeBegin(t)
        \/ IncomeOcr(t)
        \/ IncomeMatch(t)
        \/ BasicOcr(t)

Spec == Init /\ [][Next]_vars

\* ------------------------------------------------------------------------
\* Specification: two income-certificate requests in concurrent threads
\* ------------------------------------------------------------------------

ConcRequest(name, readable) ==
    [docType |-> "income_certificate",
     user |-> [usable |-> TRUE, aadhaar_number |-> <<>>, full_name |-> Str(name)],
     ext |-> ".jpg", readable |-> readable, pyzbar |-> TRUE]

InitConc ==
    /\ \E readable \in BOOLEAN :
        req = [t \in Threads |-> IF t = 1 THEN ConcRequest("Ram Das", readable)
                                 ELSE ConcRequest("Sita Devi", TRUE)]
    /\ pc = [t \in Threads |-> "call"]
    /\ loc = [t \in Threads |-> NoLocals]
    /\ verdict = [t \in Threads |-> NoVerdict]
    /\ log = [t \in Threads |-> <<>>]
    /\ heap = << <<>> >>
    /\ agentSteps = 1
    /\ classifier_instance = 0
    /\ instances = 0
    /\ db = NoRows

NextConc ==
    \E t \in Threads :
        \/ Dispatch(t)
        \/ ResetSteps(t)
        \/ IncomeBegin(t)
        \/ IncomeOcr(t)
        \/ IncomeMatch(t)
        \/ CertExcept(t)

SpecConc == InitConc /\ [][NextConc]_vars

\* ------------------------------------------------------------------------
\* Specification: one call of a helper function
\* ------------------------------------------------------------------------

\* int(c) of a decimal digit
DigitValue(c) == CHOOSE n \in 0..9 : Str("0123456789")[n + 1] = c

\* int(s[i:i+3]) for the k-th group of three digits
GroupValue(s, k) ==
    100 * DigitValue(s[3 * k - 2]) + 10 * DigitValue(s[3 * k - 1]) + DigitValue(s[3 * k])

\* A variant of DecodeNumeric3Byte: a group above 255 wraps around
DecodeNumeric3Byte_Wrap(s) ==
    IF Len(s) % 3 # 0
    THEN [raised |-> TRUE, bytes |-> <<>>]
    ELSE [raised |-> FALSE, bytes |-> [k \in 1..(Len(s) \div 3) |-> GroupValue(s, k) % 256]]

\* decode_numeric_3byte(raw) for a payload of ASCII digits: "Invalid SQR-3
\* format" when the length is no multiple of 3, the ValueError of bytes()
\* when a group is above 255.
DecodeNumeric3Byte(s) ==
    IF Len(s) % 3 # 0 \/ \E k \in 1..(Len(s) \div 3) : GroupValue(s, k) > 255
    THEN [raised |-> TRUE, bytes |-> <<>>]
    ELSE [raised |-> FALSE, bytes |-> [k \in 1..(Len(s) \div 3) |-> GroupValue(s, k)]]

\* Bytes as zero-padded groups of three decimal digits
Encode3(bytes) ==
    LET d == Str("0123456789")
        RECURSIVE Enc(_)
        Enc(k) == IF k > Len(bytes) THEN <<>>
                  ELSE <<d[(bytes[k] \div 100) + 1], d[((bytes[k] \div 10) % 10) + 1],
                         d[(bytes[k] % 10) + 1]>> \o Enc(k + 1)
    IN  Enc(1)

\* b[ptr:ptr+n] of Python, ptr counted from 0: a slice that runs past the end
\* of b is cut short, it raises nothing
PySlice(b, ptr, n) == SubSeq(b, ptr + 1, Min(ptr + n, Len(b)))

\* int.from_bytes(s, "big"); 0 for the empty slice
FromBytesBig(s) ==
    LET RECURSIVE Val(_)
        Val(k) == IF k = 0 THEN 0 ELSE 256 * Val(k - 1) + s[k]
    IN  Val(Len(s))

\* zlib.decompress(z).decode(). A stream is the header byte 120 (0x78), the length
\* of one stored block and the bytes of the block; an incomplete stream and
\* a wrong header raise, bytes after the end of the stream are ignored, and
\* a block with a byte above 127 is no UTF-8 text.
ZlibDecompress(z) ==
    IF Len(z) >= 2 /\ z[1] = 120 /\ Len(z) >= 2 + z[2]
       /\ \A i \in 3..(2 + z[2]) : z[i] < 128
    THEN [raised |-> FALSE, text |-> SubSeq(z, 3, 2 + z[2])]
    ELSE [raised |-> TRUE, text |-> <<>>]

NoSqr3 ==
    [raised |-> TRUE, xml |-> <<>>, photo |-> <<>>, signature |-> <<>>,
     version |-> 0, xml_len |-> 0, photo_len |-> 0, sig_len |-> 0]

\* parse_sqr3(raw), with the lengths it read; b[ptr] on an empty stream is
\* an IndexError
ParseSqr3(raw) ==
    LET d == DecodeNumeric3Byte(raw)
        b == d.bytes
        xml_len == FromBytesBig(PySlice(b, 1, 2))
        photo_len == FromBytesBig(PySlice(b, 3, 4))
        xml_gz == PySlice(b, 7, xml_len)
        photo == PySlice(b, 7 + xml_len, photo_len)
        ptr == 7 + xml_len + photo_len
        sig_len == FromBytesBig(PySlice(b, ptr, 2))
        signature == PySlice(b, ptr + 2, sig_len)
        z == ZlibDecompress(xml_gz)
    IN  IF d.raised \/ b = <<>> \/ z.raised THEN NoSqr3
        ELSE [raised |-> FALSE, xml |-> z.text, photo |-> photo, signature |-> signature,
              version |-> b[1], xml_len |-> xml_len, photo_len |-> photo_len,
              sig_len |-> sig_len]

\* n as k bytes, most significant first
ToBytesBig(n, k) == [i \in 1..k |-> IF i = k THEN n % 256 ELSE 0]

\* A Secure-QR stream: version, lengths, compressed XML, photo, signature
Sqr3Stream(xml_gz, photo, sig) ==
    <<2>> \o ToBytesBig(Len(xml_gz), 2) \o ToBytesBig(Len(photo), 4)
          \o xml_gz \o photo \o ToBytesBig(Len(sig), 2) \o sig

\* Digit payloads handed to parse_sqr3: the streams of a Secure QR code and
\* what a scanner gives when it reads only the beginning of one
Sqr3Payloads ==
    LET full == {Sqr3Stream(x, p, g) :
                    x \in {<<120, 0>>, <<120, 1, 60>>, <<9>>},
                    p \in {<<>>, <<7>>, <<7, 8>>},
                    g \in {<<>>, <<5>>, <<5, 6>>}}
    IN  UNION {{Encode3(SubSeq(f, 1, n)) : n \in 0..Len(f)} : f \in full}

\* The longest digit payload handed to decode_numeric_3byte
MaxDigits == 6

\* Payloads of ASCII digits
DigitPayloads ==
    UNION {[1..n -> {"0", "2", "5", "6"}] : n \in 0..MaxDigits}

\* Payloads handed to _parse_aadhaar_qr_enhanced, as bytes or as text:
\* those of QRPayloads and
\*   digits       digits, a multiple of 3 long, that are no Secure-QR block
\*   zlib_stored  zlib stream of XML with a stored block, not UTF-8
\*   zlib_utf8    zlib stream of XML with a stored block that is UTF-8 text
ParsePayloads ==
    [form : {"sqr3", "xml", "xml_bad", "xml_padded", "zlib", "b64zlib", "attrs", "junk",
             "digits", "zlib_stored", "zlib_utf8"},
     typ : {"bytes", "str"}, uid : {Str("123456789012"), Str("1234"), <<>>},
     name : {Str("Ram Das")}, len : {120}]

\* Names of the profile and of the QR record
NamePairs ==
    LET names == {Str("Ram Das"), Str("RAM DAS"), Str(" ram das "), Str("RamDas"),
                  Str("Ram  Das"), Str("A     B"), Str("ab"), Str("Sita Devi"), <<>>}
    IN  names \X names

\* Claimed names, recognised texts and whether the transliteration service
\* answers, for the name matching of the certificate strategies
CertNameInputs ==
    {Str("Ram Das"), Str("Ram"), Str("Ram "), Str("Das Ram"), Str("Krishna Kumar Sharma"),
     Str("Om"), <<>>}
    \X {<<>>, Str("Name: Ram\nDas"), Str("Income Certificate Ram Das"),
        Str("Shri Krishna Sharma"), Str("Sharma"),
        Str("Income ") \o <<"dev:praman", " ", "dev:ram", " ", "dev:das">>}
    \X BOOLEAN

InitUnit ==
    /\ \E call \in ({"decode_call"} \X DigitPayloads)
                   \cup ({"parse_call"} \X ParsePayloads)
                   \cup ({"sqr3_call"} \X Sqr3Payloads)
                   \cup ({"certname_call"} \X CertNameInputs)
                   \cup ({"name_call"} \X NamePairs) :
        /\ pc = [t \in Threads |-> IF t = 1 THEN call[1] ELSE "idle"]
        /\ loc = [t \in Threads |-> IF t = 1 THEN [NoLocals EXCEPT !.fn = call[1], !.arg = call[2]]
                                    ELSE NoLocals]
    /\ req = [t \in Threads |-> IdleRequest]
    /\ verdict = [t \in Threads |-> NoVerdict]
    /\ log = [t \in Threads |-> <<>>]
    /\ heap = << <<>> >>
    /\ agentSteps = 1
    /\ classifier_instance = 0
    /\ instances = 0
    /\ db = NoRows

\* decode_numeric_3byte(raw)
DecodeCall(t) ==
    /\ pc[t] = "decode_call"
    /\ UNCHANGED <<nlp, db>>
    /\ LET r == DecodeNumeric3Byte(loc[t].arg) IN
       /\ loc' = [loc EXCEPT ![t].ret = r]
       /\ Goto(t, IF r.raised THEN "raised" ELSE "done")
    /\ UNCHANGED <<req, verdict, log, heap, agentSteps>>

\* _parse_aadhaar_qr_enhanced(qr_data), with what parse_qr_universal gave
ParseCall(t) ==
    /\ pc[t] = "parse_call"
    /\ UNCHANGED <<nlp, db>>
    /\ LET r == ParseAadhaarQrEnhanced(loc[t].arg) IN
       /\ loc' = [loc EXCEPT ![t].ret = [universal |-> ParseQrUniversal(loc[t].arg),
                                         raised |-> r.raised, fields |-> r.fields]]
       /\ Goto(t, IF r.raised THEN "raised" ELSE "done")
    /\ UNCHANGED <<req, verdict, log, heap, agentSteps>>

\* SECURITY CHECK 2 on (user_name, extracted_data["name"])
NameCall(t) ==
    /\ pc[t] = "name_call"
    /\ UNCHANGED <<nlp, db>>
    /\ LET a == loc[t].arg[1]
           b == loc[t].arg[2]
       IN  loc' = [loc EXCEPT ![t].ret =
                     [name_score |-> FuzzyMatch(Strip(Lower(a)), Strip(Lower(b))),
                      passes |-> NameCheckPasses(a, b)]]
    /\ Goto(t, "done")
    /\ UNCHANGED <<req, verdict, log, heap, agentSteps>>

\* parse_sqr3(raw)
Sqr3Call(t) ==
    /\ pc[t] = "sqr3_call"
    /\ UNCHANGED <<nlp, db>>
    /\ LET r == ParseSqr3(loc[t].arg) IN
       /\ loc' = [loc EXCEPT ![t].ret = r]
       /\ Goto(t, IF r.raised THEN "raised" ELSE "done")
    /\ UNCHANGED <<req, verdict, log, heap, agentSteps>>

\* The name matching of verify_income_certificate, of
\* _verify_caste_multilang_ocr, of _verify_aadhaar_multilang_ocr and of
\* _verify_document_basic_ocr on (user_name, text)
CertNameCall(t) ==
    /\ pc[t] = "certname_call"
    /\ UNCHANGED <<nlp, db>>
    /\ LET user_name == loc[t].arg[1]
           text_lower == Lower(loc[t].arg[2])
           up == loc[t].arg[3]
       IN  loc' = [loc EXCEPT ![t].ret =
                     [income |-> IncomeNameFound(user_name, text_lower, up),
                      caste |-> CasteNameFound(user_name, text_lower, up),
                      aadhaar_ocr |-> Contains(Lower(user_name), text_lower),
                      basic_ocr |-> Contains(Lower(user_name), text_lower)]]
    /\ Goto(t, "done")
    /\ UNCHANGED <<req, verdict, log, heap, agentSteps>>

NextUnit ==
    \E t \in Threads :
        \/ DecodeCall(t)
        \/ CertNameCall(t)
        \/ Sqr3Call(t)
        \/ ParseCall(t)
        \/ NameCall(t)

SpecUnit == InitUnit /\ [][NextUnit]_vars

\* ------------------------------------------------------------------------
\* Specification: get_nlp_classifier called by the grievance endpoints, which
\* FastAPI runs in worker threads
\* ------------------------------------------------------------------------

\* Calls of get_nlp_classifier a thread makes
MaxCalls == 2

InitNlp ==
    /\ pc = [t \in Threads |-> "get_nlp_classifier"]
    /\ loc = [t \in Threads |-> NoLocals]
    /\ req = [t \in Threads |-> IdleRequest]
    /\ verdict = [t \in Threads |-> NoVerdict]
    /\ log = [t \in Threads |-> <<>>]
    /\ heap = << <<>> >>
    /\ agentSteps = 1
    /\ classifier_instance = 0
    /\ instances = 0
    /\ db = NoRows

\* if _classifier_instance is None:
NlpCheck(t) ==
    /\ pc[t] = "get_nlp_classifier"
    /\ Goto(t, IF classifier_instance = 0 THEN "nlp_construct" ELSE "nlp_return")
    /\ UNCHANGED <<req, loc, verdict, log, heap, agentSteps, nlp, db>>

\* NLPPriorityClassifier(): the right-hand side of the assignment, which
\* loads the sentence-transformer model
NlpConstruct(t) ==
    /\ pc[t] = "nlp_construct"
    /\ instances' = instances + 1
    /\ loc' = [loc EXCEPT ![t].instance = instances + 1]
    /\ Goto(t, "nlp_assign")
    /\ UNCHANGED <<req, verdict, log, heap, agentSteps, classifier_instance, db>>

\* _classifier_instance = <the new object>
NlpAssign(t) ==
    /\ pc[t] = "nlp_assign"
    /\ classifier_instance' = loc[t].instance
    /\ Goto(t, "nlp_return")
    /\ UNCHANGED <<req, loc, verdict, log, heap, agentSteps, instances, db>>

\* return _classifier_instance; ret collects what the thread's calls returned
NlpReturn(t) ==
    /\ pc[t] = "nlp_return"
    /\ loc' = [loc EXCEPT ![t].ret = Append(@, classifier_instance)]
    /\ Goto(t, IF Len(loc[t].ret) + 1 < MaxCalls THEN "get_nlp_classifier" ELSE "done")
    /\ UNCHANGED <<req, verdict, log, heap, agentSteps, nlp, db>>

NextNlp ==
    \E t \in Threads :
        \/ NlpCheck(t)
        \/ NlpConstruct(t)
        \/ NlpAssign(t)
        \/ NlpReturn(t)

SpecNlp == InitNlp /\ [][NextNlp]_vars

\* ------------------------------------------------------------------------
\* Specification: the grievance endpoints POST /grievances/ and
\* GET /grievances/{grievance_id}
\* ------------------------------------------------------------------------

\* Python values of two types: a member of the enum models.UserRole, which
\* is no subclass of str, and a str
UserRoleMember(name, value) == [type |-> "UserRole", name |-> name, value |-> value]
PyStr(s) == [type |-> "str", name |-> "", value |-> s]

\* a == b of Python for these values: values of different types are unequal
PyEq(a, b) == a = b

\* Rows of users: two victims and an official
GrievanceUsers ==
    { [id |-> 1, role |-> UserRoleMember("VICTIM", "victim"), phone |-> "9000000001",
       email |-> "ram@example.org"],
      [id |-> 2, role |-> UserRoleMember("VICTIM", "victim"), phone |-> "9000000002",
       email |-> "sita@example.org"],
      [id |-> 3, role |-> UserRoleMember("OFFICIAL", "official"), phone |-> "9000000003",
       email |-> "officer@example.org"] }

\* Rows of cases, by id: the case of victim 1 and the case of victim 2, both
\* created by and assigned to the official
CaseRows ==
    << [victim_phone |-> "9000000001", victim_email |-> "ram@example.org",
        created_by_user_id |-> 3, assigned_officer_user_id |-> 3],
       [victim_phone |-> "9000000002", victim_email |-> "",
        created_by_user_id |-> 3, assigned_officer_user_id |-> 3] >>

\* Grievances the table may hold
MaxGrievances == 2

\* The access control of create_grievance and get_grievance: the request
\* of current_user for case is rejected with 403
AccessDenied(current_user, case) ==
    IF PyEq(current_user.role, PyStr("VICTIM"))
    THEN /\ case.victim_phone # current_user.phone
         /\ case.victim_email # current_user.email
    ELSE IF PyEq(current_user.role, PyStr("OFFICER"))
    THEN /\ case.created_by_user_id # current_user.id
         /\ case.assigned_officer_user_id # current_user.id
    ELSE FALSE

NoResponse == [status |-> 0, body |-> <<>>]

InitGrievance ==
    /\ pc = [t \in Threads |-> IF t = 1 THEN "grievance_api" ELSE "idle"]
    /\ loc = [t \in Threads |-> NoLocals]
    /\ req = [t \in Threads |-> [op |-> "", user |-> <<>>, id |-> 0]]
    /\ verdict = [t \in Threads |-> NoResponse]
    /\ log = [t \in Threads |-> <<>>]
    /\ heap = << <<>> >>
    /\ agentSteps = 1
    /\ classifier_instance = 0
    /\ instances = 0
    /\ db = [cases |-> CaseRows, grievances |-> <<>>]

\* POST /grievances/ by current_user for case_id; the classification or the
\* commit may fail (500)
CreateGrievance(t) ==
    /\ pc[t] = "grievance_api"
    /\ \E current_user \in GrievanceUsers, case_id \in 1..(Len(CaseRows) + 1), fails \in BOOLEAN :
        LET found == case_id \in DOMAIN db.cases
            denied == found /\ AccessDenied(current_user, db.cases[case_id])
            status == IF ~found THEN 404
                      ELSE IF denied THEN 403
                      ELSE IF fails THEN 500
                      ELSE 201
            row == [id |-> Len(db.grievances) + 1, case_id |-> case_id,
                    created_by_user_id |-> current_user.id]
        IN  /\ status = 201 => Len(db.grievances) < MaxGrievances
            /\ req' = [req EXCEPT ![t] = [op |-> "create", user |-> current_user, id |-> case_id]]
            /\ verdict' = [verdict EXCEPT ![t] =
                             [status |-> status, body |-> IF status = 201 THEN row ELSE <<>>]]
            /\ db' = IF status = 201
                     THEN [db EXCEPT !.grievances = Append(@, row)]
                     ELSE db
            /\ IF status = 201 /\ classifier_instance = 0
               THEN classifier_instance' = instances + 1 /\ instances' = instances + 1
               ELSE UNCHANGED nlp
    /\ UNCHANGED <<pc, loc, log, heap, agentSteps>>

\* GET /grievances/{grievance_id} by current_user
GetGrievance(t) ==
    /\ pc[t] = "grievance_api"
    /\ \E current_user \in GrievanceUsers, grievance_id \in 1..(MaxGrievances + 1) :
        LET found == grievance_id \in DOMAIN db.grievances
            denied == found /\ AccessDenied(current_user,
                                            db.cases[db.grievances[grievance_id].case_id])
            status == IF ~found THEN 404 ELSE IF denied THEN 403 ELSE 200
        IN  /\ req' = [req EXCEPT ![t] = [op |-> "get", user |-> current_user,
                                          id |-> grievance_id]]
            /\ verdict' = [verdict EXCEPT ![t] =
                             [status |-> status,
                              body |-> IF status = 200 THEN db.grievances[grievance_id]
                                       ELSE <<>>]]
    /\ UNCHANGED <<pc, loc, log, heap, agentSteps, nlp, db>>

NextGrievance ==
    \E t \in Threads :
        \/ CreateGrievance(t)
        \/ GetGrievance(t)

SpecGrievance == InitGrievance /\ [][NextGrievance]_vars

\* ------------------------------------------------------------------------
\* Properties
\* ------------------------------------------------------------------------

Returned(t) == pc[t] = "done"

Steps(t) == {log[t][i] : i \in 1..Len(log[t])}

FallbackRan(t) == St("MULTILANG_OCR_FALLBACK", "", t) \in Steps(t)

MismatchReasons == {"Aadhaar number mismatch", "Name mismatch"}

\* C1: verify_document_with_ocr never raises to its caller; what it returns
\* has a boolean verified, and an exception that reached the except clause
\* of a function is reported as verified = false with the error message.
C1_NeverRaises ==
    \A t \in Threads :
        /\ pc[t] # "raised"
        /\ Returned(t) =>
            /\ verdict[t].verified \in BOOLEAN
            /\ loc[t].exc # "" =>
                /\ ~verdict[t].verified
                /\ verdict[t].error # <<>>
                /\ verdict[t].error[Len(verdict[t].error)] = loc[t].exc

C1_Witness ==
    \E t \in Threads :
        /\ Returned(t)
        /\ req[t].docType = "aadhaar"
        /\ loc[t].exc = "cannot use a string pattern on a bytes-like object"
        /\ ~verdict[t].verified

\* C2: every verdict of the four document types carries the audit trail of
\* the steps recorded during the request, in order, and every verdict with
\* verified = false carries a reason or an error message.
C2_TrailAndReason ==
    \A t \in Threads :
        Returned(t) /\ req[t].docType \in SupportedDocTypes =>
            /\ verdict[t].has_trail
            /\ Trail(verdict[t]) = log[t]
            /\ ~verdict[t].verified => verdict[t].reason # "" \/ verdict[t].error # <<>>

\* C3: with two requests in concurrent threads, the audit trail of each
\* returned verdict is exactly the steps of its own request, and the verdict
\* is the one the request produces alone.
C3_OwnTrail ==
    \A t \in Threads :
        Returned(t) =>
            /\ verdict[t].has_trail
            /\ Trail(verdict[t]) = log[t]
            /\ \/ verdict[t].error # <<>>
               \/ \E up \in BOOLEAN :
                    [verdict[t] EXCEPT !.has_trail = FALSE, !.audit_trail = 0]
                        = IncomeVerdict(req[t].user.full_name, loc[t].text, up)

\* C4: a verdict with verified = false whose cause is an identifier or a
\* name mismatch has security_alert = true.
C4_MismatchAlerts ==
    \A t \in Threads :
        Returned(t) /\ ~verdict[t].verified /\ verdict[t].reason \in MismatchReasons
            => verdict[t].security_alert

\* C5: security_alert is set only after an identifier or name comparison
\* found a mismatch: never on a verdict that reports an error of a stage or
\* that no identifier could be extracted.
C5_AlertOnlyOnMismatch ==
    \A t \in Threads :
        Returned(t) /\ verdict[t].security_alert =>
            /\ verdict[t].error = <<>>
            /\ verdict[t].reason \in MismatchReasons

\* The identifiers differ somewhere in the first 8 digits.
DifferInFirst8(a, b) ==
    \E i \in 1..8 : i <= Len(a) /\ i <= Len(b) /\ a[i] # b[i]

IdentifierMismatchVerdict(v) ==
    ~v.verified /\ v.security_alert /\ v.reason = "Aadhaar number mismatch"

\* C6 (as stated): in the QR path, a claimed and an extracted identifier
\* that differ in the first 8 digits fail the identifier check: verified =
\* false, security_alert = true, identifier-mismatch reason.
C6_First8Strict ==
    \A t \in Threads :
        loc[t].qr_result # <<>>
        /\ DifferInFirst8(req[t].user.aadhaar_number, loc[t].fields.aadhaar_number)
            => IdentifierMismatchVerdict(loc[t].qr_result[1])

\* C6 (amended): in the QR path the identifier check fails, with verified =
\* false, security_alert = true and the identifier-mismatch reason, exactly
\* when the extracted identifier differs from the claimed one and their last
\* four digits differ too; the last-four tolerance is always applied.
C6_Last4Tolerated ==
    \A t \in Threads :
        loc[t].qr_result # <<>> =>
            LET c == req[t].user.aadhaar_number
                e == loc[t].fields.aadhaar_number
            IN  IdentifierMismatchVerdict(loc[t].qr_result[1])
                    <=> (e # c /\ SubSeq(e, Len(e) - 3, Len(e)) # SubSeq(c, Len(c) - 3, Len(c)))

C6_Witness ==
    \E t \in Threads :
        /\ loc[t].qr_result # <<>>
        /\ DifferInFirst8(req[t].user.aadhaar_number, loc[t].fields.aadhaar_number)
        /\ loc[t].qr_result[1].verified

\* C7: in the QR path, once an identifier was parsed, the verdict is verified
\* exactly when the identifier check passes and the similarity of the
\* lower-cased, trimmed names is at least 0.65 (0.65 itself accepted); the
\* verified verdict has confidence 95 and matched fields {identifier, name}.
C7_QrVerdict ==
    \A t \in Threads :
        loc[t].qr_result # <<>> =>
            LET v == loc[t].qr_result[1]
                c == req[t].user.aadhaar_number
                e == loc[t].fields.aadhaar_number
                r == FuzzyMatch(Strip(Lower(req[t].user.full_name)),
                                Strip(Lower(loc[t].fields.name)))
            IN  /\ v.verified <=> (IdentifierCheckPasses(e, c) /\ r[1] * 100 >= 65 * r[2])
                /\ v.verified => /\ v.confidence = 9500
                                 /\ v.matched_fields = {"aadhaar_number", "name"}

C7_Witness ==
    \E t \in Threads :
        /\ Returned(t)
        /\ loc[t].qr_result # <<>>
        /\ verdict[t].verified
        /\ LET r == FuzzyMatch(Strip(Lower(req[t].user.full_name)),
                               Strip(Lower(loc[t].fields.name)))
           IN  r[1] * 100 = 65 * r[2]

\* C8: in the OCR fallback, when an identifier is recognised the verdict is
\* verified exactly when it equals the claimed identifier (no last-four
\* tolerance); confidence is 65 when the claimed name occurs in the text and
\* 50 when not; a different identifier gives verified = false with
\* security_alert = true.
C8_OcrVerdict ==
    \A t \in Threads :
        Returned(t) /\ FallbackRan(t) /\ loc[t].aadhaar_found # <<>> =>
            LET v == verdict[t]
                c == req[t].user.aadhaar_number
                named == Contains(Lower(req[t].user.full_name), Lower(loc[t].text))
            IN  /\ v.verified <=> loc[t].aadhaar_found = c
                /\ v.verified => v.confidence = IF named THEN 6500 ELSE 5000
                /\ loc[t].aadhaar_found # c => ~v.verified /\ v.security_alert

C8_Witness ==
    \E t \in Threads :
        /\ Returned(t) /\ FallbackRan(t)
        /\ loc[t].aadhaar_found # <<>>
        /\ loc[t].aadhaar_found # req[t].user.aadhaar_number
        /\ Last4(loc[t].aadhaar_found) = Last4(req[t].user.aadhaar_number)
        /\ ~verdict[t].verified /\ verdict[t].security_alert

\* C9: whenever a QR payload was located but no identifier was parsed from
\* it, the pipeline proceeds to the OCR fallback; the parse failure is never
\* returned as an error verdict.
C9_ParseFailureFallsBack ==
    \A t \in Threads :
        Returned(t) /\ req[t].docType = "aadhaar" /\ loc[t].qr # NoQR
        /\ loc[t].fields.aadhaar_number = <<>>
            => FallbackRan(t)

\* C10: the OCR fallback runs only if the QR stage produced no verdict; a
\* verdict of the QR stage, verified or not, is what verify_aadhaar_card
\* returns.
C10_QrVerdictTerminal ==
    \A t \in Threads :
        /\ FallbackRan(t) => loc[t].qr_result = <<>>
        /\ Returned(t) /\ loc[t].qr_result # <<>> => verdict[t] = loc[t].qr_result[1]

C10_Witness ==
    \E t \in Threads :
        /\ Returned(t)
        /\ loc[t].qr_result # <<>>
        /\ verdict[t].security_alert
        /\ ~FallbackRan(t)

\* C11: a PDF is rendered at 600, 500, 400 and 300 DPI in that order and the
\* first successful render is used; if all four attempts fail the verdict
\* is verified = false with the render error and an audit trail that records
\* the failed conversion, nothing is raised, and neither the QR stage nor
\* the OCR fallback runs.
C11_RenderCascade ==
    \A t \in Threads :
        LET tried == loc[t].attempts IN
        /\ Len(tried) <= 4
        /\ \A i \in 1..Len(tried) : tried[i] = <<600, 500, 400, 300>>[i]
        /\ loc[t].dpi # 0 => loc[t].dpi = tried[Len(tried)]
        /\ St("QR_EXTRACTION_ATTEMPT", "started", t) \in Steps(t) /\ req[t].ext = ".pdf"
              => loc[t].dpi # 0
        /\ pc[t] \notin {"render", "raised"} /\ tried # <<>> /\ loc[t].dpi = 0 =>
              /\ Returned(t)
              /\ Len(tried) = 4
              /\ ~verdict[t].verified
              /\ verdict[t].error = <<"PDF conversion failed: ",
                                      "Failed to render PDF at any DPI level">>
              /\ verdict[t].has_trail
              /\ \E i \in 1..Len(Trail(verdict[t])) :
                    Trail(verdict[t])[i] = St("PDF_CONVERSION", "failed", t)
              /\ St("QR_EXTRACTION_ATTEMPT", "started", t) \notin Steps(t)
              /\ ~FallbackRan(t)
        /\ pc[t] # "raised"

C11_Witness ==
    \E t \in Threads :
        /\ Returned(t)
        /\ loc[t].attempts = <<600, 500, 400, 300>>
        /\ loc[t].dpi = 0
        /\ verdict[t].error # <<>>

\* C15: the confidence of every verdict lies in [0, 100], and every verified
\* verdict of a keyword-based certificate strategy (caste certificate,
\* income certificate, FIR copy) has confidence at most 85.
C15_ConfidenceRange ==
    \A t \in Threads :
        Returned(t) =>
            /\ verdict[t].confidence = -1 \/ verdict[t].confidence \in 0..10000
            /\ verdict[t].verified
               /\ req[t].docType \in {"caste_certificate", "income_certificate", "fir_copy"}
                  => verdict[t].confidence <= 8500

\* A verdict of the caste certificate's keyword path
CasteKeywordVerdict(t) ==
    /\ Returned(t)
    /\ req[t].docType = "caste_certificate"
    /\ verdict[t].error = <<>>
    /\ verdict[t].method # "QR_VALIDATION"

\* C16: in the caste-certificate keyword path the verdict is verified
\* exactly when the matched keywords scaled to a percentage are at least 30
\* and the claimed name is found; the verified verdict reports that
\* percentage capped at 85.
C16_CasteKeywordVerdict ==
    \A t \in Threads :
        CasteKeywordVerdict(t) =>
            LET v == verdict[t]
                matches == CountMatches(CasteKeywords, Lower(loc[t].text))
                pct == (matches * 10000) \div 8
            IN  /\ v.verified <=> (pct >= 3000 /\ v.name_matched)
                /\ v.verified => v.confidence = IF pct > 8500 THEN 8500 ELSE pct
                /\ Contains(Lower(req[t].user.full_name), Lower(loc[t].text))
                      => v.name_matched

C16_Witness ==
    \E t \in Threads :
        /\ CasteKeywordVerdict(t)
        /\ verdict[t].verified
        /\ verdict[t].confidence = 5000

\* C18: the payload the QR locator returns is longer than the threshold of
\* 50, whichever backend decoded it, and no later backend is invoked after a
\* hit.
C18_LocatedPayloadIsLong ==
    \A t \in Threads :
        /\ loc[t].qr # NoQR => loc[t].qr.len > 50
        /\ St("PYZBAR_SUCCESS", "", t) \in Steps(t)
              => St("TRYING_OPENCV_DETECTOR", "started", t) \notin Steps(t)

\* C19: for a PDF in which no QR payload is found, the OCR fallback reads
\* the rendered frame and the request ends with a verdict of the OCR
\* fallback, not with an error verdict.
C19_PdfFallbackVerdict ==
    \A t \in Threads :
        Returned(t) /\ req[t].docType = "aadhaar" /\ req[t].ext = ".pdf"
        /\ loc[t].dpi # 0 /\ loc[t].qr = NoQR
            => /\ verdict[t].error = <<>>
               /\ verdict[t].method = "MULTILANG_OCR"

\* The call of the helper function has ended, by return or by exception.
Ended(t, fn) == pc[t] \in {"done", "raised"} /\ loc[t].fn = fn

IsDigitPayload(s) == \A i \in 1..Len(s) : s[i] \in DigitChars

\* Every complete group of three digits is a byte value.
GroupsAreBytes(s) ==
    \A k \in 1..(Len(s) \div 3) :
        \E v \in 0..255 : Encode3(<<v>>) = SubSeq(s, 3 * k - 2, 3 * k)

\* C12: for a payload of ASCII digits whose length is divisible by 3 and
\* whose groups are byte values, decoding and re-encoding each byte as three
\* decimal digits gives the payload back; a payload whose length is not
\* divisible by 3 or that has a group above 255 is rejected with an error.
C12_NumericRoundTrip ==
    \A t \in Threads :
        Ended(t, "decode_call") /\ IsDigitPayload(loc[t].arg) =>
            LET s == loc[t].arg
                valid == Len(s) % 3 = 0 /\ GroupsAreBytes(s)
            IN  /\ valid => ~loc[t].ret.raised /\ Encode3(loc[t].ret.bytes) = s
                /\ ~valid => loc[t].ret.raised /\ pc[t] = "raised"

C12_Witness ==
    \E t \in Threads :
        /\ Ended(t, "decode_call")
        /\ loc[t].arg = Str("255002")
        /\ loc[t].ret.bytes = <<255, 2>>

\* The payload is one of the four encodings of a well-formed identity XML.
EncodesIdentityXml(p) ==
    p.form \in {"sqr3", "xml", "zlib", "zlib_stored", "zlib_utf8", "b64zlib"}

\* C13: for each of the four encodings, parsing a payload that encodes a
\* well-formed identity XML with a 12-digit identifier returns a record with
\* that identifier.
C13_FourEncodings ==
    \A t \in Threads :
        Ended(t, "parse_call")
        /\ EncodesIdentityXml(loc[t].arg) /\ IsTwelveDigits(loc[t].arg.uid)
            => /\ ~loc[t].ret.raised
               /\ loc[t].ret.fields.aadhaar_number = loc[t].arg.uid

\* The strings without their spaces, compared without case
SameNameIgnoringSpaces(a, b) == RemoveSpaces(Lower(a)) = RemoveSpaces(Lower(b))

\* C14: for names that are equal when compared case-insensitively and
\* space-insensitively the name check computes similarity 1.0 and passes.
C14_EqualNamesPass ==
    \A t \in Threads :
        Ended(t, "name_call")
        /\ SameNameIgnoringSpaces(loc[t].arg[1], loc[t].arg[2])
            => /\ loc[t].ret.name_score[1] = loc[t].ret.name_score[2]
               /\ loc[t].ret.passes

\* C20: parse_qr_universal tries custom numeric, plain XML, zlib and
\* base64+zlib in that order; the result comes from the first candidate that
\* parses without error, and an error is raised if none does.
C20_FirstCandidateWins ==
    \A t \in Threads :
        Ended(t, "parse_call") =>
            LET p == loc[t].arg
                u == loc[t].ret.universal
                order == <<"sqr3", "xml", "zlib", "b64zlib">>
            IN  /\ ~u.ok <=> \A i \in 1..4 : ~CandidateParses(order[i], p)
                /\ u.ok => \E i \in 1..4 :
                              /\ u.via = order[i]
                              /\ CandidateParses(order[i], p)
                              /\ \A j \in 1..(i - 1) : ~CandidateParses(order[j], p)
                              /\ u = CandidateXml(order[i], p)

C20_Witness ==
    \E t \in Threads :
        /\ Ended(t, "parse_call")
        /\ loc[t].arg.form = "zlib_utf8"
        /\ loc[t].ret.universal.via = "xml"

\* C17: under any interleaving of concurrent calls of get_nlp_classifier the
\* classifier is constructed at most once and every call returns the same
\* instance.
C17_OneClassifier ==
    /\ instances <= 1
    /\ \A t, u \in Threads :
        \A i \in 1..Len(loc[t].ret), j \in 1..Len(loc[u].ret) :
            loc[t].ret[i] = loc[u].ret[j]

\* C21: parse_sqr3 reads version, XML length, photo length, the compressed
\* XML, the photo, the signature length and the signature, and the photo and
\* the signature it returns have exactly the lengths the stream declares.
C21_DeclaredLengths ==
    \A t \in Threads :
        Ended(t, "sqr3_call") /\ ~loc[t].ret.raised =>
            /\ Len(loc[t].ret.photo) = loc[t].ret.photo_len
            /\ Len(loc[t].ret.signature) = loc[t].ret.sig_len

\* The OCR_ATTEMPT steps thread t wrote, in order
OcrAttempts(t) ==
    LET names == {"OCR_ATTEMPT_" \o l :
                     l \in {"eng+hin", "eng", "hin", "eng+tam", "eng+tel"}}
        IsAttempt(s) == s.step \in names
    IN  SelectSeq(log[t], IsAttempt)

\* C22: the OCR fallback tries eng+hin, eng, hin, eng+tam, eng+tel in that
\* order; it stops at the first attempt that yields an identifier candidate,
\* also when the candidate differs from the claimed identifier; it goes on
\* to the next pack when the engine fails; and it returns the
\* unable-to-extract verdict only after five attempts without a candidate.
C22_LanguageCascade ==
    \A t \in Threads :
        LET a == OcrAttempts(t)
            packs == <<"eng+hin", "eng", "hin", "eng+tam", "eng+tel">>
        IN  /\ Len(a) <= 5
            /\ \A i \in 1..Len(a) : a[i].step = "OCR_ATTEMPT_" \o packs[i]
            /\ pc[t] = "ocr_lang" =>
                  /\ loc[t].aadhaar_found = <<>>
                  /\ loc[t].idx = Len(a) + 1
            /\ loc[t].aadhaar_found # <<>> /\ FallbackRan(t) =>
                  /\ a # <<>>
                  /\ a[Len(a)].status # "error"
            /\ Returned(t) /\ verdict[t].method = "MULTILANG_OCR" =>
                  /\ verdict[t].reason = "Unable to extract Aadhaar number from image"
                        <=> loc[t].aadhaar_found = <<>>
                  /\ loc[t].aadhaar_found = <<>> => Len(a) = 5
                  /\ verdict[t].reason = "Aadhaar number mismatch"
                        <=> /\ loc[t].aadhaar_found # <<>>
                            /\ loc[t].aadhaar_found # req[t].user.aadhaar_number

\* The engine failed on eng+hin, eng gave a candidate that is not the claimed
\* identifier, and the verdict was returned after these two attempts.
C22_Witness ==
    \E t \in Threads :
        /\ Returned(t)
        /\ verdict[t].reason = "Aadhaar number mismatch"
        /\ verdict[t].method = "MULTILANG_OCR"
        /\ Len(OcrAttempts(t)) = 2
        /\ OcrAttempts(t)[1].status = "error"

\* C23: the certificate strategies accept the claimed name when the whole
\* name or one of its variants occurs in the text, or when the name has
\* three or more tokens and all but one are found; a name of fewer than
\* three tokens with a missing token is not found; and the income and the
\* caste implementation decide the same for every name and text.
C23_CertificateNameRule ==
    \A t \in Threads :
        Ended(t, "certname_call") =>
            LET user_name == loc[t].arg[1]
                text_lower == Lower(loc[t].arg[2])
                up == loc[t].arg[3]
                parts == Split(user_name)
                n == PartMatches(parts, text_lower, up)
                whole == \E v \in GetNameVariations(user_name, up) : Contains(v, text_lower)
                r == loc[t].ret
            IN  /\ r.income = r.caste
                /\ whole => r.income /\ r.caste
                /\ Len(parts) >= 3 /\ n >= Len(parts) - 1 => r.income /\ r.caste
                /\ Len(parts) < 3 /\ n < Len(parts) /\ ~whole => ~r.income /\ ~r.caste

\* C24: every exception caught inside a verification stage is recorded as a
\* step of the audit trail before the pipeline continues or returns: when a
\* handler has caught an exception and the verdict is returned, the last
\* step the request wrote records an error.
C24_CaughtErrorsInTrail ==
    \A t \in Threads :
        Returned(t) /\ loc[t].exc # "" =>
            /\ log[t] # <<>>
            /\ log[t][Len(log[t])].status \in {"error", "failed"}

\* The user is a victim and neither the phone nor the email of the case is
\* theirs.
IsVictim(u) == u.role.value = "victim"
OthersCase(u, case) ==
    IsVictim(u) /\ case.victim_phone # u.phone /\ case.victim_email # u.email

\* C25: a victim can create or view a grievance only for a case whose victim
\* phone or email is their own; a victim's request for another victim's case
\* is answered with 403 and creates or reveals nothing.
C25_VictimOwnCaseOnly ==
    /\ \A i \in 1..Len(db.grievances) :
          \A u \in GrievanceUsers :
              u.id = db.grievances[i].created_by_user_id =>
                  ~OthersCase(u, db.cases[db.grievances[i].case_id])
    /\ \A t \in Threads :
          /\ req[t].op = "create" /\ req[t].id \in DOMAIN db.cases
             /\ OthersCase(req[t].user, db.cases[req[t].id])
                => verdict[t] = [status |-> 403, body |-> <<>>]
          /\ req[t].op = "get" /\ verdict[t].status \in {200, 403}
             /\ OthersCase(req[t].user, db.cases[db.grievances[req[t].id].case_id])
                => verdict[t] = [status |-> 403, body |-> <<>>]

\* C26: no OCR strategy reports the claimed name as found in the document
\* when the claimed name is the empty string.
C26_EmptyNameNeverFound ==
    \A t \in Threads :
        Ended(t, "certname_call") /\ loc[t].arg[1] = <<>> =>
            /\ ~loc[t].ret.income
            /\ ~loc[t].ret.caste
            /\ ~loc[t].ret.aadhaar_ocr
            /\ ~loc[t].ret.basic_ocr

\* The decimal digits of s, in order
DigitsOf(s) ==
    LET IsDigit(c) == c \in DigitChars IN SelectSeq(s, IsDigit)

\* C27: an identifier candidate accepted by the OCR pattern matcher is
\* normalised to its 12 digits before it is compared with the claimed
\* identifier, whichever whitespace separates its groups; recognised text
\* whose 12 digits equal the claimed identifier never gives an
\* identifier-mismatch verdict with security_alert.
C27_CandidateNormalised ==
    \A t \in Threads :
        Returned(t) /\ verdict[t].method = "MULTILANG_OCR" /\ loc[t].aadhaar_found # <<>> =>
            /\ loc[t].aadhaar_found = DigitsOf(FirstAadhaarMatch(loc[t].text))
            /\ DigitsOf(FirstAadhaarMatch(loc[t].text)) = req[t].user.aadhaar_number
                  => ~(verdict[t].reason = "Aadhaar number mismatch"
                       /\ verdict[t].security_alert)

\* C28: whenever the QR path returns verified = true, the identifier
\* extracted from the QR payload is a string of exactly 12 decimal digits.
C28_VerifiedIdIsTwelveDigits ==
    \A t \in Threads :
        loc[t].qr_result # <<>> /\ loc[t].qr_result[1].verified =>
            IsTwelveDigits(loc[t].fields.aadhaar_number)

\* C29: the payload handed to the QR payload parser is byte for byte the
\* payload the decoding backend produced, for every backend and every
\* payload, binary zlib payloads included.
C29_PayloadUnaltered ==
    \A t \in Threads :
        pc[t] = "qr_parse" =>
            [loc[t].qr EXCEPT !.typ = "raw"] = loc[t].decoded

\* C30: a caste-certificate verdict with verified = true is returned only if
\* the claimed name was found in the document, on the QR path as well.
C30_CasteVerifiedNeedsName ==
    \A t \in Threads :
        Returned(t) /\ req[t].docType = "caste_certificate" /\ verdict[t].verified =>
            /\ verdict[t].name_matched
            /\ verdict[t].method # "QR_VALIDATION"

====
